---- MODULE Spec2Model ----
(***************************************************************************)
(* Model of sklearn_porter/estimator/KNeighborsClassifier/__init__.py:     *)
(* the KNeighborsClassifier adapter (construction, then port calls).       *)
(*                                                                         *)
(* Numbers.  A float is modelled by the integer number of its hundredths   *)
(* (115 is 1.15).  A scalar of the estimator is a record [t, v] with       *)
(* t = "int" or "float".  A literal (text of a number in the output) is a  *)
(* record [kind, val, sfx]: kind "int" is text without a decimal point,    *)
(* kind "float" text with one; sfx is a trailing type suffix.              *)
(* An optional value is a sequence of length 0 or 1.                       *)
(***************************************************************************)
EXTENDS Integers, Sequences, FiniteSets, TLC

VARIABLES
    est,          \* the estimator handed to the adapter
    honoured,     \* does this interpreter's json read encoder.FLOAT_REPR?
    adapter,      \* "none" | "ok" | "failed": outcome of __init__
    err,          \* the exception __init__ raised ("" if none)
    meta_info,    \* self.meta_info   (optional)
    model_data,   \* self.model_data  (optional)
    placeholders, \* self.placeholders
    FLOAT_REPR,   \* json.encoder.FLOAT_REPR (process-wide)
    tplLoaded,    \* has _load_templates been called?
    last,         \* the last finished port call [req, res] (optional)
    rem,          \* an earlier finished port call, kept for comparison
    pc,           \* per thread: position in port
    treq,         \* per thread: the request of the running call
    tres          \* per thread: the result of the finished call (optional)

vars == <<est, honoured, adapter, err, meta_info, model_data, placeholders,
          FLOAT_REPR, tplLoaded, last, rem, pc, treq, tres>>

----------------------------------------------------------------------------
(* Bounds of the model *)

MaxRows == 2
MaxCols == 2
MaxClasses == 2
NThreads == 2

----------------------------------------------------------------------------
(* Enumerations (sklearn_porter.enums) and the class constants *)

None == "None"

DEFAULT_LANGUAGE == "java"

MutDefaultTemplate == "exported"

DEFAULT_TEMPLATE == "attached"

DEFAULT_METHOD == "predict"

SUPPORT ==
    [l \in {"java", "js"} |-> [t \in {"attached", "exported"} |-> {"predict"}]]

----------------------------------------------------------------------------
(* The estimators *)

IntVal(i) == [t |-> "int", v |-> i]

FloatVal(f) == [t |-> "float", v |-> f]

\* an r x c training matrix with pairwise distinct entries, none of them a
\* multiple of 0.1
Mat(r, c) == [i \in 1..r |-> [j \in 1..c |-> 100 * i + 10 * j + 5]]

Estimators ==
    { [fitted |-> f, weights |-> w,
       classes_ |-> [i \in 1..n |-> i - 1],
       fit_X |-> Mat(r, c),
       y |-> [i \in 1..r |-> (i - 1) % n],
       n_neighbors |-> 5, p |-> p, metric |-> "minkowski"] :
         f \in BOOLEAN, w \in {"uniform", "distance"},
         n \in 1..MaxClasses, r \in 1..MaxRows, c \in 1..MaxCols,
         p \in {IntVal(2), FloatVal(155)} }

----------------------------------------------------------------------------
(* __init__ *)

MutMetaInfo(e) ==
    [n_classes |-> Len(e.classes_),
     n_templates |-> Len(e.fit_X[1]),
     n_features |-> Len(e.fit_X),
     metric |-> e.metric]

MetaInfo(e) ==
    [n_classes |-> Len(e.classes_),
     n_templates |-> Len(e.fit_X),
     n_features |-> Len(e.fit_X[1]),
     metric |-> e.metric]

ModelData(e) ==
    [X |-> e.fit_X,
     y |-> e.y,
     k |-> IntVal(e.n_neighbors),
     n |-> IntVal(Len(e.classes_)),
     power |-> e.p]

\* weights are looked at before the fitted test
MutInitWeightsFirst(e) ==
    IF e.weights # "uniform"
    THEN [status |-> "failed", err |-> "NotSupportedYetError",
          meta_info |-> <<>>, model_data |-> <<>>]
    ELSE IF ~e.fitted
    THEN [status |-> "failed", err |-> "NotFittedEstimatorError",
          meta_info |-> <<>>, model_data |-> <<>>]
    ELSE [status |-> "ok", err |-> "",
          meta_info |-> <<MetaInfo(e)>>, model_data |-> <<ModelData(e)>>]

\* weights are looked at only after the extraction
MutInitExtractFirst(e) ==
    IF ~e.fitted
    THEN [status |-> "failed", err |-> "NotFittedEstimatorError",
          meta_info |-> <<>>, model_data |-> <<>>]
    ELSE IF e.weights # "uniform"
    THEN [status |-> "failed", err |-> "NotSupportedYetError",
          meta_info |-> <<MetaInfo(e)>>, model_data |-> <<ModelData(e)>>]
    ELSE [status |-> "ok", err |-> "",
          meta_info |-> <<MetaInfo(e)>>, model_data |-> <<ModelData(e)>>]

\* what __init__ leaves behind: the exception raised, and the attributes
\* assigned up to that point
InitOutcome(e) ==
    IF ~e.fitted
    THEN [status |-> "failed", err |-> "NotFittedEstimatorError",
          meta_info |-> <<>>, model_data |-> <<>>]
    ELSE IF e.weights # "uniform"
    THEN [status |-> "failed", err |-> "NotSupportedYetError",
          meta_info |-> <<>>, model_data |-> <<>>]
    ELSE [status |-> "ok", err |-> "",
          meta_info |-> <<MetaInfo(e)>>, model_data |-> <<ModelData(e)>>]

----------------------------------------------------------------------------
(* Literals and conversions *)

IntLit(i) == [kind |-> "int", val |-> i, sfx |-> ""]

\* the callers' converters: "trunc1" keeps one decimal place, "suffix"
\* appends a type suffix; "default" is Python's own float.__repr__
Converters == {"trunc1", "suffix"}

Convert(c, f) ==
    CASE c = "trunc1" -> [kind |-> "float", val |-> (f \div 10) * 10, sfx |-> ""]
      [] c = "suffix" -> [kind |-> "float", val |-> f, sfx |-> "f"]
      [] OTHER        -> [kind |-> "float", val |-> f, sfx |-> ""]

\* str(v) of a scalar
Str(v) == IF v.t = "float" THEN Convert("default", v.v) ELSE IntLit(v.v)

\* the number a literal denotes, in hundredths
NumericValue(lit) == IF lit.kind = "int" THEN 100 * lit.val ELSE lit.val

----------------------------------------------------------------------------
(* EstimatorBase: check, placeholders, templates *)

PLACEHOLDERS == [estimator_name |-> "KNeighborsClassifier"]

Check(method, language, template) ==
    LET m == IF method = None THEN DEFAULT_METHOD ELSE method
        l == IF language = None THEN DEFAULT_LANGUAGE ELSE language
        t == IF template = None THEN DEFAULT_TEMPLATE ELSE template
    IN  [ok |-> /\ l \in DOMAIN SUPPORT
                /\ t \in DOMAIN SUPPORT[l]
                /\ m \in SUPPORT[l][t],
         method |-> m, language |-> l, template |-> t]

\* a template rendered with its placeholder values
Render(language, name, values) ==
    [language |-> language, template |-> name, values |-> values]

----------------------------------------------------------------------------
(* port *)

Languages == {"java", "js", "c", None}

Templates == {"attached", "exported", "combined", None}

Methods == {"predict", "predict_proba", None}

\* the requests tried: every (language, template, method) with one converter,
\* and every (template, converter, to_json) for the default language
Requests ==
    [language : Languages, template : Templates, method : Methods,
     converter : {"trunc1"}, to_json : {FALSE}]
    \cup
    [language : {"java"}, template : {"attached", "exported", None},
     method : {None}, converter : Converters \cup {None}, to_json : BOOLEAN]

Failure(e) == [ok |-> FALSE, err |-> e, out |-> <<>>]

Success(o) == [ok |-> TRUE, err |-> "", out |-> o]

\* lines 113-115: the method of the request is not handed to check
Checked(req) == Check(None, req.language, req.template)

\* lines 118-130
Plas(req, pl, mi) ==
    [estimator_name |-> pl.estimator_name,
     class_name |-> None,
     method_name |-> Checked(req).method,
     to_json |-> req.to_json,
     n_classes |-> mi.n_classes,
     n_templates |-> mi.n_templates,
     n_features |-> mi.n_features,
     metric |-> mi.metric]

\* json's floatstr: the patched FLOAT_REPR where json reads it, else
\* float.__repr__
FloatStr(fr, hon, f) == IF hon THEN Convert(fr, f) ELSE Convert("default", f)

JsonNumber(fr, hon, v) ==
    IF v.t = "float" THEN FloatStr(fr, hon, v.v) ELSE IntLit(v.v)

\* line 141: dumps(self.model_data, separators=(',', ':'))
Dumps(md, fr, hon) ==
    [X |-> [i \in DOMAIN md.X |->
                [j \in DOMAIN md.X[i] |-> FloatStr(fr, hon, md.X[i][j])]],
     y |-> [i \in DOMAIN md.y |-> IntLit(md.y[i])],
     k |-> JsonNumber(fr, hon, md.k),
     n |-> JsonNumber(fr, hon, md.n),
     power |-> JsonNumber(fr, hon, md.power)]

\* lines 137-142, with fr the value of encoder.FLOAT_REPR when dumps runs
ExportedResult(req, pl, mi, md, fr, hon) ==
    LET out_class == Render(Checked(req).language, "exported.class",
                            Plas(req, pl, mi))
    IN  IF hon /\ fr = None
        THEN Failure("TypeError")
        ELSE Success(<<out_class, Dumps(md, fr, hon)>>)

\* lines 151-164
XStr(req, md) ==
    [type |-> "double", name |-> "X",
     values |-> [i \in DOMAIN md.X |->
                   [j \in DOMAIN md.X[i] |-> Convert(req.converter, md.X[i][j])]],
     n |-> Len(md.X),
     m |-> Len(md.X[1])]

\* lines 166-169
YStr(md) ==
    [type |-> "int", name |-> "y",
     values |-> [i \in DOMAIN md.y |-> IntLit(md.y[i])],
     n |-> Len(md.y)]

\* lines 145-183; k, n and power reach the class template as they are and
\* are written there by plain substitution
AttachedResult(req, pl, mi, md) ==
    IF req.converter = None
    THEN Failure("TypeError")
    ELSE LET base == Plas(req, pl, mi)
             plas == [estimator_name |-> base.estimator_name,
                      class_name |-> base.class_name,
                      method_name |-> base.method_name,
                      to_json |-> base.to_json,
                      n_classes |-> base.n_classes,
                      n_templates |-> base.n_templates,
                      n_features |-> base.n_features,
                      metric |-> base.metric,
                      X |-> XStr(req, md),
                      y |-> YStr(md),
                      k |-> Str(md.k),
                      n |-> Str(md.n),
                      power |-> Str(md.power)]
         IN  Success(<<Render(Checked(req).language, "attached.class", plas)>>)

\* encoder.FLOAT_REPR is read after it was assigned
MutDumpFormatter(converter, fr) == fr

\* lines 139-141: the value of encoder.FLOAT_REPR that dumps reads in a
\* call that runs alone
DumpFormatter(converter, fr) == converter

\* a whole port call run alone, from the process-wide state fr
PortResult(req, pl, mi, md, fr, hon) ==
    IF ~Checked(req).ok
    THEN Failure("CapabilityError")
    ELSE IF Checked(req).template = "exported"
    THEN ExportedResult(req, pl, mi, md, DumpFormatter(req.converter, fr), hon)
    ELSE AttachedResult(req, pl, mi, md)

\* encoder.FLOAT_REPR after a port call run alone
FloatReprAfter(req, fr) ==
    IF Checked(req).ok /\ Checked(req).template = "exported"
    THEN req.converter
    ELSE fr

----------------------------------------------------------------------------
(* The state machine *)

Threads == 1..NThreads

NoRequest ==
    [language |-> None, template |-> None, method |-> None,
     converter |-> None, to_json |-> FALSE]

Init ==
    /\ est \in Estimators
    /\ honoured \in BOOLEAN
    /\ adapter = "none"
    /\ err = ""
    /\ meta_info = <<>>
    /\ model_data = <<>>
    /\ placeholders = PLACEHOLDERS
    /\ FLOAT_REPR = "default"
    /\ tplLoaded = FALSE
    /\ last = <<>>
    /\ rem = <<>>
    /\ pc = [t \in Threads |-> "idle"]
    /\ treq = [t \in Threads |-> NoRequest]
    /\ tres = [t \in Threads |-> <<>>]

\* KNeighborsClassifier(estimator)
Construct ==
    /\ adapter = "none"
    /\ adapter' = InitOutcome(est).status
    /\ err' = InitOutcome(est).err
    /\ meta_info' = InitOutcome(est).meta_info
    /\ model_data' = InitOutcome(est).model_data
    /\ UNCHANGED <<est, honoured, placeholders, FLOAT_REPR, tplLoaded, last,
                   rem, pc, treq, tres>>

\* adapter.port(...), run from its first line to its return or exception
Port(req) ==
    /\ adapter = "ok"
    /\ last' = <<[req |-> req,
                  res |-> PortResult(req, placeholders, meta_info[1],
                                     model_data[1], FLOAT_REPR, honoured)]>>
    /\ FLOAT_REPR' = FloatReprAfter(req, FLOAT_REPR)
    /\ tplLoaded' = (tplLoaded \/ Checked(req).ok)
    /\ rem' = IF rem = <<>> THEN rem
              ELSE <<[rem[1] EXCEPT !.since = IF @ < 2 THEN @ + 1 ELSE @]>>
    /\ UNCHANGED <<est, honoured, adapter, err, meta_info, model_data,
                   placeholders, pc, treq, tres>>

PortAny == \E req \in Requests : Port(req)

Next == Construct \/ PortAny

Spec == Init /\ [][Next]_vars

----------------------------------------------------------------------------
(* Repeated calls: an observer keeps one finished call and counts the      *)
(* calls that follow it                                                    *)

PairRequests ==
    [language : {"java"}, template : {"attached", "exported"},
     method : {None}, converter : Converters \cup {None}, to_json : BOOLEAN]

PortPair == \E req \in PairRequests : Port(req)

Remember ==
    /\ rem = <<>>
    /\ last # <<>>
    /\ rem' = <<[req |-> last[1].req, res |-> last[1].res, since |-> 0]>>
    /\ UNCHANGED <<est, honoured, adapter, err, meta_info, model_data,
                   placeholders, FLOAT_REPR, tplLoaded, last, pc, treq, tres>>

NextPair == Construct \/ PortPair \/ Remember

SpecPair == Init /\ [][NextPair]_vars

----------------------------------------------------------------------------
(* Port calls in threads: a thread may be preempted between any two        *)
(* statements; the only statements that touch shared state are the         *)
(* assignment to encoder.FLOAT_REPR and the call of dumps                  *)

ParRequests ==
    [language : {"java", "js"}, template : {"attached", "exported", "combined"},
     method : {None}, converter : Converters, to_json : {FALSE}]

\* lines 113-133
Begin(t, req) ==
    /\ adapter = "ok"
    /\ pc[t] = "idle"
    /\ treq' = [treq EXCEPT ![t] = req]
    /\ IF ~Checked(req).ok
       THEN /\ pc' = [pc EXCEPT ![t] = "done"]
            /\ tres' = [tres EXCEPT ![t] = <<Failure("CapabilityError")>>]
            /\ UNCHANGED tplLoaded
       ELSE /\ pc' = [pc EXCEPT ![t] =
                        IF Checked(req).template = "exported"
                        THEN "export_set" ELSE "attached"]
            /\ tplLoaded' = TRUE
            /\ UNCHANGED tres
    /\ UNCHANGED <<est, honoured, adapter, err, meta_info, model_data,
                   placeholders, FLOAT_REPR, last, rem>>

\* lines 137-140
ExportSet(t) ==
    /\ pc[t] = "export_set"
    /\ FLOAT_REPR' = treq[t].converter
    /\ pc' = [pc EXCEPT ![t] = "export_dump"]
    /\ UNCHANGED <<est, honoured, adapter, err, meta_info, model_data,
                   placeholders, tplLoaded, last, rem, treq, tres>>

\* lines 141-142
ExportDump(t) ==
    /\ pc[t] = "export_dump"
    /\ tres' = [tres EXCEPT ![t] =
                  <<ExportedResult(treq[t], placeholders, meta_info[1],
                                   model_data[1], FLOAT_REPR, honoured)>>]
    /\ pc' = [pc EXCEPT ![t] = "done"]
    /\ UNCHANGED <<est, honoured, adapter, err, meta_info, model_data,
                   placeholders, FLOAT_REPR, tplLoaded, last, rem, treq>>

\* lines 145-183
Attach(t) ==
    /\ pc[t] = "attached"
    /\ tres' = [tres EXCEPT ![t] =
                  <<AttachedResult(treq[t], placeholders, meta_info[1],
                                   model_data[1])>>]
    /\ pc' = [pc EXCEPT ![t] = "done"]
    /\ UNCHANGED <<est, honoured, adapter, err, meta_info, model_data,
                   placeholders, FLOAT_REPR, tplLoaded, last, rem, treq>>

BeginAny == \E t \in Threads : \E req \in ParRequests : Begin(t, req)

ExportSetAny == \E t \in Threads : ExportSet(t)

ExportDumpAny == \E t \in Threads : ExportDump(t)

AttachAny == \E t \in Threads : Attach(t)

NextPar == Construct \/ BeginAny \/ ExportSetAny \/ ExportDumpAny \/ AttachAny

SpecPar == Init /\ [][NextPar]_vars

----------------------------------------------------------------------------
(* Properties *)

LastReq == last[1].req

LastRes == last[1].res

\* the numbers an Attached source embeds, and the numbers of a data document
AttachedNumbers(src) ==
    [X |-> [i \in DOMAIN src.values.X.values |->
              [j \in DOMAIN src.values.X.values[i] |->
                  NumericValue(src.values.X.values[i][j])]],
     y |-> [i \in DOMAIN src.values.y.values |->
              NumericValue(src.values.y.values[i])],
     k |-> NumericValue(src.values.k),
     n |-> NumericValue(src.values.n),
     power |-> NumericValue(src.values.power)]

DocumentNumbers(doc) ==
    [X |-> [i \in DOMAIN doc.X |->
              [j \in DOMAIN doc.X[i] |-> NumericValue(doc.X[i][j])]],
     y |-> [i \in DOMAIN doc.y |-> NumericValue(doc.y[i])],
     k |-> NumericValue(doc.k),
     n |-> NumericValue(doc.n),
     power |-> NumericValue(doc.power)]

\* C1: a port call whose requested (language, mode, method), defaults filled
\* in, is in SUPPORT succeeds with non-empty output; one whose triple is not
\* in SUPPORT fails with a capability error and no output.
C1_SupportDecidesPort ==
    (last # <<>> /\ LastReq.converter \in Converters) =>
        IF Check(LastReq.method, LastReq.language, LastReq.template).ok
        THEN LastRes.ok /\ LastRes.out # <<>>
        ELSE ~LastRes.ok /\ LastRes.err = "CapabilityError" /\ LastRes.out = <<>>

\* C2: for an unfitted estimator, whatever its weights, construction raises
\* NotFittedEstimatorError; no template is loaded, no meta_info or model_data
\* is extracted, and no port call runs.
C2_UnfittedFailsFirst ==
    (~est.fitted /\ adapter # "none") =>
        /\ adapter = "failed"
        /\ err = "NotFittedEstimatorError"
        /\ ~tplLoaded
        /\ meta_info = <<>>
        /\ model_data = <<>>
        /\ last = <<>>

C2_Witness ==
    ~est.fitted /\ est.weights = "distance" /\ adapter = "failed"

\* C3: for a fitted estimator with non-uniform weights, construction raises
\* NotSupportedYetError, and neither meta_info nor model_data is assigned.
C3_WeightsFailBeforeExtraction ==
    (est.fitted /\ est.weights # "uniform" /\ adapter # "none") =>
        /\ adapter = "failed"
        /\ err = "NotSupportedYetError"
        /\ meta_info = <<>>
        /\ model_data = <<>>

C3_Witness ==
    est.fitted /\ est.weights = "distance" /\ adapter = "failed"

\* C4: a port call returns the same result as an earlier call with the same
\* request and converter, whatever calls ran between the two.
C4_Idempotent ==
    (rem # <<>> /\ last # <<>> /\ rem[1].req = LastReq) =>
        rem[1].res = LastRes

C4_Witness ==
    /\ rem # <<>>
    /\ rem[1].since = 2
    /\ rem[1].req = LastReq
    /\ LastReq.template = "exported"
    /\ LastRes.ok
    /\ honoured

\* C5: for one adapter, language and converter, the numbers an Attached
\* source embeds (X, y, k, n, power) are the numbers of the Exported data
\* document, in the same order.
C5_AttachedEqualsExported ==
    (/\ rem # <<>>
     /\ rem[1].res.ok
     /\ LastRes.ok
     /\ rem[1].req.template = "exported"
     /\ LastReq.template = "attached"
     /\ rem[1].req.language = LastReq.language
     /\ rem[1].req.converter = LastReq.converter) =>
        AttachedNumbers(LastRes.out[1]) = DocumentNumbers(rem[1].res.out[2])

\* C6: every port call that ran in a thread returned what the same call
\* returns when it runs alone.
C6_ParallelCallsIndependent ==
    \A t \in Threads :
        tres[t] # <<>> =>
            tres[t][1] = PortResult(treq[t], placeholders, meta_info[1],
                                    model_data[1], "default", honoured)

\* C7: after construction meta_info holds the row count, the row length and
\* the class count of the estimator's arrays; an Attached source states these
\* counts as the dimensions of X, the length of y and the scalar n.
C7_CountsRoundTrip ==
    adapter = "ok" =>
        /\ meta_info[1].n_templates = Len(est.fit_X)
        /\ meta_info[1].n_features = Len(est.fit_X[1])
        /\ meta_info[1].n_classes = Len(est.classes_)
        /\ (last # <<>> /\ LastRes.ok /\ Len(LastRes.out) = 1) =>
              LET v == LastRes.out[1].values
              IN  /\ v.X.n = meta_info[1].n_templates
                  /\ v.X.m = meta_info[1].n_features
                  /\ v.y.n = meta_info[1].n_templates
                  /\ v.n = IntLit(meta_info[1].n_classes)
                  /\ v.n_templates = Len(est.fit_X)
                  /\ v.n_features = Len(est.fit_X[1])
                  /\ v.n_classes = Len(est.classes_)

C7_Witness ==
    /\ last # <<>>
    /\ LastRes.ok
    /\ Len(LastRes.out) = 1
    /\ Len(est.fit_X) # Len(est.fit_X[1])

\* C8: a successful call in Attached mode (asked for, or by default when the
\* mode is omitted) returns one source; a successful call in Exported mode
\* returns a pair of a class source and a data document whose keys are the
\* ModelData field names; a failed call returns nothing.
C8_ResultForm ==
    last # <<>> =>
        LET t == IF LastReq.template = None THEN "attached" ELSE LastReq.template
        IN  IF LastRes.ok
            THEN \/ /\ t = "attached"
                    /\ Len(LastRes.out) = 1
                    /\ LastRes.out[1].template = "attached.class"
                 \/ /\ t = "exported"
                    /\ Len(LastRes.out) = 2
                    /\ LastRes.out[1].template = "exported.class"
                    /\ DOMAIN LastRes.out[2] = {"X", "y", "k", "n", "power"}
                    /\ DOMAIN LastRes.out[2] = DOMAIN model_data[1]
            ELSE LastRes.out = <<>> /\ LastRes.err # ""

C8_Witness ==
    /\ last # <<>>
    /\ LastReq.template = None
    /\ LastRes.ok
    /\ Len(LastRes.out) = 1

\* C9: port calls leave the adapter's placeholders, meta_info and model_data
\* and the process-wide encoder.FLOAT_REPR as they were before the first call.
C9_NoStateRetained ==
    adapter = "ok" =>
        /\ placeholders = PLACEHOLDERS
        /\ meta_info = <<MetaInfo(est)>>
        /\ model_data = <<ModelData(est)>>
        /\ FLOAT_REPR = "default"

\* C10: in a successful call every float of ModelData in the output (the
\* elements of X, and power when it is a float) is written as the literal the
\* call's converter returns for it.
C10_FloatsThroughConverter ==
    (last # <<>> /\ LastRes.ok) =>
        LET md == model_data[1]
            c == LastReq.converter
            X == IF Len(LastRes.out) = 1 THEN LastRes.out[1].values.X.values
                 ELSE LastRes.out[2].X
            power == IF Len(LastRes.out) = 1 THEN LastRes.out[1].values.power
                     ELSE LastRes.out[2].power
        IN  /\ \A i \in DOMAIN md.X : \A j \in DOMAIN md.X[i] :
                  X[i][j] = Convert(c, md.X[i][j])
            /\ md.power.t = "float" => power = Convert(c, md.power.v)

====
